---- MODULE Spec2Model ----
(***************************************************************************)
(* weight-ocr-server: the upload handler with its admission gate, history *)
(* and webhook, the image route (src/src/server.ts), and the recognition   *)
(* call with the weight extractor (src/src/ocrService.ts).                 *)
(*                                                                         *)
(* Text is a sequence of one-character strings.  The extractor's           *)
(* confidence (0.95, 0.9, 0.5 in the source) is kept in hundredths         *)
(* (95, 90, 50); the confidence of a recognition result, which the source  *)
(* computes as engine confidence (0..100) times extractor confidence       *)
(* divided by 100, is kept in ten-thousandths.                             *)
(***************************************************************************)
EXTENDS Integers, Sequences, FiniteSets, TLC

VARIABLES
    envMaxConcurrent,   \* process.env.MAX_CONCURRENT_OCR
    webhookUrl,         \* whether process.env.WEBHOOK_URL is set
    activeOCRRequests,  \* the counter of the admission gate
    uploadHistory,      \* the in-memory history, newest first
    reqFile,            \* per upload request: whether it carries an image file
    pc,                 \* per upload request: where its handler stands
    outcome,            \* per request: what recognizeWeight is about to settle with
    worker,             \* per request: the Tesseract worker of its recognizeWeight call
    responses,          \* per request: the HTTP responses sent, in order
    webhooks,           \* per request: whether its webhook POST was started
    webhookPayload,     \* per request: the body of its webhook POST, or NoPayload
    now,                \* the wall clock that new Date() reads
    reqBody,            \* per upload request: req.body, the text fields of its form
    receivedAt,         \* per request: the receivedAt its handler took, or NoTime
    text,               \* extractor run: the argument of extractWeightFromText
    extracted,          \* extractor run: the value it returned, or NoResult
    extractedAgain,     \* extractor run: the value returned for extracted.value
    ocrData,            \* recognition run: the data the engine's recognize returned
    recognized,         \* recognition run: what recognizeWeight returned, or NoRecognition
    param,              \* image request: req.params.filename of GET /uploads/:filename
    served              \* image request: the response to it, or NoAnswer

----------------------------------------------------------------------------
(* Bounds of the extractor runs *)
MaxLen == 5
MaxTokens == 3

Alphabet == {"1", "2", ".", ",", " ", "\n", "k"}
Tokens == { <<"1">>, <<"2", "1">>, <<"1", ".", "2">>, <<"2", ",", "1">>,
            <<"1", "2", "1", "2">>, <<" ">>, <<"\n">>, <<"k">>, <<".">> }

RECURSIVE SeqsUpTo(_, _)
SeqsUpTo(S, n) ==
    IF n = 0 THEN {<<>>}
    ELSE LET shorter == SeqsUpTo(S, n - 1)
         IN  shorter \cup {<<c>> \o s : c \in S, s \in {t \in shorter : Len(t) = n - 1}}

RECURSIVE TokenTexts(_)
TokenTexts(n) ==
    IF n = 0 THEN {<<>>}
    ELSE LET shorter == TokenTexts(n - 1)
         IN  shorter \cup {t \o s : t \in Tokens, s \in shorter}

(* the texts handed to the extractor: every text of up to maxLen characters *)
(* and every concatenation of up to maxTokens tokens                        *)
Texts(maxLen, maxTokens) == SeqsUpTo(Alphabet, maxLen) \cup TokenTexts(maxTokens)

----------------------------------------------------------------------------
(* Character classes of the regular expressions: \d, \s and [.,] *)
Digits == {"0", "1", "2", "3", "4", "5", "6", "7", "8", "9"}
WhiteSpace == {" ", "\n", "\t", "\r"}
Separators == {".", ","}

IsDigit(c) == c \in Digits
IsSpace(c) == c \in WhiteSpace

(* text.replace(/\s+/g, ' '): every maximal whitespace run becomes one space *)
RECURSIVE SkipSpaces(_)
SkipSpaces(s) ==
    IF s # <<>> /\ IsSpace(Head(s)) THEN SkipSpaces(Tail(s)) ELSE s

RECURSIVE ReplaceSpaceRuns(_)
ReplaceSpaceRuns(s) ==
    IF s = <<>> THEN <<>>
    ELSE IF IsSpace(Head(s)) THEN <<" ">> \o ReplaceSpaceRuns(SkipSpaces(Tail(s)))
    ELSE <<Head(s)>> \o ReplaceSpaceRuns(Tail(s))

(* String.prototype.trim *)
RECURSIVE TrimEnd(_)
TrimEnd(s) ==
    IF s # <<>> /\ IsSpace(s[Len(s)]) THEN TrimEnd(SubSeq(s, 1, Len(s) - 1)) ELSE s

Trim_startOnly(s) == SkipSpaces(s)
Trim(s) == TrimEnd(SkipSpaces(s))

Normalize(s) == Trim(ReplaceSpaceRuns(s))

(* \d+ anchored at i, greedy: the index after the digit run that starts at i *)
RECURSIVE DigitsEnd(_, _)
DigitsEnd(s, i) ==
    IF i <= Len(s) /\ IsDigit(s[i]) THEN DigitsEnd(s, i + 1) ELSE i

(* /\d+[.,]\d+/ anchored at i: the index after the match, 0 when none *)
DecimalEnd_dotOnly(s, i) ==
    IF i <= Len(s) /\ IsDigit(s[i])
    THEN LET j == DigitsEnd(s, i)
         IN  IF j + 1 <= Len(s) /\ s[j] = "." /\ IsDigit(s[j + 1])
             THEN DigitsEnd(s, j + 1)
             ELSE 0
    ELSE 0

DecimalEnd(s, i) ==
    IF i <= Len(s) /\ IsDigit(s[i])
    THEN LET j == DigitsEnd(s, i)
         IN  IF j + 1 <= Len(s) /\ s[j] \in Separators /\ IsDigit(s[j + 1])
             THEN DigitsEnd(s, j + 1)
             ELSE 0
    ELSE 0

(* /\d+/ anchored at i: the index after the match, 0 when none *)
WholeEnd(s, i) ==
    IF i <= Len(s) /\ IsDigit(s[i]) THEN DigitsEnd(s, i) ELSE 0

PatternEnd(pattern, s, i) ==
    IF pattern = "decimal" THEN DecimalEnd(s, i) ELSE WholeEnd(s, i)

(* String.prototype.match with a /g pattern: the matches of a left-to-right *)
(* scan, each search resuming after the previous match                      *)
RECURSIVE MatchAll(_, _, _)
MatchAll(pattern, s, i) ==
    IF i > Len(s) THEN <<>>
    ELSE LET e == PatternEnd(pattern, s, i)
         IN  IF e > 0 THEN <<SubSeq(s, i, e - 1)>> \o MatchAll(pattern, s, e)
             ELSE MatchAll(pattern, s, i + 1)

(* the reducer (a, b) => a.length >= b.length ? a : b *)
KeepLonger_lastOfTies(a, b) == IF Len(a) > Len(b) THEN a ELSE b
KeepLonger(a, b) == IF Len(a) >= Len(b) THEN a ELSE b

(* matches.reduce(KeepLonger) on a non-empty array *)
RECURSIVE ReduceFrom(_, _)
ReduceFrom(acc, rest) ==
    IF rest = <<>> THEN acc ELSE ReduceFrom(KeepLonger(acc, Head(rest)), Tail(rest))

Longest_first(matches) == Head(matches)
Longest(matches) == ReduceFrom(Head(matches), Tail(matches))

(* longest.replace(',', '.'): the first comma only *)
RECURSIVE ReplaceFirstComma(_)
ReplaceFirstComma(s) ==
    IF s = <<>> THEN <<>>
    ELSE IF Head(s) = "," THEN <<".">> \o Tail(s)
    ELSE <<Head(s)>> \o ReplaceFirstComma(Tail(s))

extractWeightFromText_integerPart(t) ==
    LET normalized == Normalize(t)
        decimalMatches == MatchAll("decimal", normalized, 1)
        wholeMatches == MatchAll("whole", normalized, 1)
    IN  IF Len(decimalMatches) > 0
        THEN [value |-> Longest(wholeMatches), confidence |-> 95]
        ELSE IF Len(wholeMatches) = 0
        THEN [value |-> normalized, confidence |-> 50]
        ELSE [value |-> Longest(wholeMatches), confidence |-> 90]

extractWeightFromText(t) ==
    LET normalized == Normalize(t)
        decimalMatches == MatchAll("decimal", normalized, 1)
        wholeMatches == MatchAll("whole", normalized, 1)
    IN  IF Len(decimalMatches) > 0
        THEN [value |-> ReplaceFirstComma(Longest(decimalMatches)), confidence |-> 95]
        ELSE IF Len(wholeMatches) = 0
        THEN [value |-> normalized, confidence |-> 50]
        ELSE [value |-> Longest(wholeMatches), confidence |-> 90]

NoResult == [value |-> <<>>, confidence |-> 0]

----------------------------------------------------------------------------
(* Bounds of the server runs *)
NumReqs == 3

Requests == 1..NumReqs

(* what the OCR engine may return: data.text and data.confidence *)
OcrTexts == { <<"2", ",", "1", " ", "k">> }
EngineConfidences == {88}

(* process.env.MAX_CONCURRENT_OCR: unset, or a string *)
Unset == [set |-> FALSE, value |-> <<>>]
EnvString(s) == [set |-> TRUE, value |-> s]
EnvValues ==
    { Unset, EnvString(<<>>), EnvString(<<"0">>), EnvString(<<"1">>),
      EnvString(<<"2">>), EnvString(<<"-", "1">>), EnvString(<<"a">>) }

(* a JavaScript number that is an integer, or NaN *)
Num(n) == [nan |-> FALSE, n |-> n]
NaN == [nan |-> TRUE, n |-> 0]

DigitValue(c) ==
    CASE c = "0" -> 0 [] c = "1" -> 1 [] c = "2" -> 2 [] c = "3" -> 3 [] c = "4" -> 4
      [] c = "5" -> 5 [] c = "6" -> 6 [] c = "7" -> 7 [] c = "8" -> 8 [] c = "9" -> 9

RECURSIVE DigitsValue(_)
DigitsValue(s) ==
    IF s = <<>> THEN 0
    ELSE 10 * DigitsValue(SubSeq(s, 1, Len(s) - 1)) + DigitValue(s[Len(s)])

(* parseInt(s, 10): leading whitespace skipped, an optional sign, then the *)
(* longest prefix of digits; NaN when that prefix is empty                 *)
parseInt(s) ==
    LET t == SkipSpaces(s)
        signed == t # <<>> /\ Head(t) \in {"+", "-"}
        u == IF signed THEN Tail(t) ELSE t
        e == DigitsEnd(u, 1)
        magnitude == DigitsValue(SubSeq(u, 1, e - 1))
    IN  IF e = 1 THEN NaN
        ELSE IF signed /\ Head(t) = "-" THEN Num(0 - magnitude)
        ELSE Num(magnitude)

(* parseInt(process.env.MAX_CONCURRENT_OCR || '2', 10) *)
MAX_CONCURRENT_OCR ==
    parseInt(IF envMaxConcurrent.set /\ envMaxConcurrent.value # <<>>
             THEN envMaxConcurrent.value
             ELSE <<"2">>)

(* activeOCRRequests >= MAX_CONCURRENT_OCR; a comparison with NaN is false *)
GateFull_offByOne(active, max) == ~max.nan /\ active > max.n
GateFull(active, max) == ~max.nan /\ active >= max.n

(* the body of the 429 response *)
RejectionBody_afterIncrement(active, max) ==
    [status |-> 429, activeRequests |-> active + 1, maxConcurrent |-> max]
RejectionBody(active, max) ==
    [status |-> 429, activeRequests |-> active, maxConcurrent |-> max]

NoFileResponse == [status |-> 400]

ErrorResponse_noStatus == [status |-> 200]
ErrorResponse == [status |-> 500]

OkResponse(responseData) == [status |-> 200, data |-> responseData]

(* what recognizeWeight is about to settle with *)
NoOutcome == [ok |-> FALSE, settled |-> FALSE]
Failure == [ok |-> FALSE, settled |-> TRUE]
Success(result) == [ok |-> TRUE, settled |-> TRUE, result |-> result]

(* the value recognizeWeight returns for the engine's data *)
RecognitionResult_engineOnly(data) ==
    LET e == extractWeightFromText(data.text)
    IN  [weight |-> e.value,
         confidence |-> data.confidence * 100,
         rawText |-> Trim(data.text)]

RecognitionResult(data) ==
    LET e == extractWeightFromText(data.text)
    IN  [weight |-> e.value,
         confidence |-> data.confidence * e.confidence,
         rawText |-> Trim(data.text)]

(* the counter after the finally block around the recognizeWeight call:   *)
(* decremented whether the call returned or threw                         *)
CounterAfterOCR_twiceOnError(active, o) == IF o.ok THEN active - 1 ELSE active - 2
CounterAfterOCR_noFinally(active, o) == IF o.ok THEN active - 1 ELSE active
CounterAfterOCR_deferred(active, o) == active
CounterAfterOCR(active, o) == active - 1

(* req.body: the text fields of the multipart form as a set of            *)
(* <<name, value>> pairs; the file part is not among them                  *)
EmptyBody == {}
Bodies ==
    << { <<"deviceId", "scale-1">> },
       { <<"deviceId", "scale-2">>, <<"note", "x">> },
       EmptyBody >>

(* two series of uploads: bodies with one field, two fields and no field  *)
(* in turn, and the same from the second on                                *)
BodySeries ==
    { [r \in Requests |-> Bodies[((r + k) % Len(Bodies)) + 1]] : k \in {2, 0} }

(* const metadata = { ...req.body }: every own field of the body *)
Metadata_deviceIdOnly(body) == {f \in body : f[1] = "deviceId"}
Metadata(body) == {f \in body : TRUE}

NoTime == 0 - 1

(* responseData; the file name multer gave the upload stands for the file *)
ImageUrl(r) == <<"/uploads/", r>>

ResponseData(r, result, at, metadata) ==
    [weight |-> result.weight, confidence |-> result.confidence,
     rawText |-> result.rawText, filename |-> r, imageUrl |-> ImageUrl(r),
     receivedAt |-> at, metadata |-> metadata]

(* the body of the webhook POST: { ...responseData, webhookSentAt } *)
NoPayload == [webhookSentAt |-> NoTime]
WebhookPayload(responseData, at) ==
    [weight |-> responseData.weight, confidence |-> responseData.confidence,
     rawText |-> responseData.rawText, filename |-> responseData.filename,
     imageUrl |-> responseData.imageUrl, receivedAt |-> responseData.receivedAt,
     metadata |-> responseData.metadata, webhookSentAt |-> at]

HISTORY_LIMIT == 50

(* uploadHistory.unshift(responseData); pop() when longer than the limit *)
SaveToHistory_noEviction(history, responseData) == <<responseData>> \o history

SaveToHistory_pushesLast(history, responseData) ==
    LET longer == history \o <<responseData>>
    IN  IF Len(longer) > HISTORY_LIMIT THEN SubSeq(longer, 2, Len(longer)) ELSE longer

SaveToHistory(history, responseData) ==
    LET longer == <<responseData>> \o history
    IN  IF Len(longer) > HISTORY_LIMIT THEN SubSeq(longer, 1, Len(longer) - 1) ELSE longer

----------------------------------------------------------------------------
(* the variables of the runs of single functions and of the image route *)
pureVars == <<text, extracted, extractedAgain, ocrData, recognized, param, served>>

(* what no handler changes: the clock and the requests as they arrive *)
worldVars == <<now, reqBody>>

vars == <<envMaxConcurrent, webhookUrl, activeOCRRequests, uploadHistory, reqFile,
          pc, outcome, worker, responses, webhooks, webhookPayload, receivedAt,
          worldVars, pureVars>>

serverVars == <<envMaxConcurrent, webhookUrl, activeOCRRequests, uploadHistory, reqFile,
                pc, outcome, worker, responses, webhooks, webhookPayload, receivedAt,
                worldVars>>

NoData == [text |-> <<>>, confidence |-> 0]
NoRecognition == [weight |-> <<>>, confidence |-> 0 - 1, rawText |-> <<>>]
NoAnswer == [status |-> 0, file |-> <<>>]

(* no run of a single function is under way *)
PureIdle ==
    /\ text = <<>>
    /\ extracted = NoResult
    /\ extractedAgain = NoResult
    /\ ocrData = NoData
    /\ recognized = NoRecognition
    /\ param = <<>>
    /\ served = NoAnswer

(* the server right after start-up, no request received yet *)
Started ==
    /\ activeOCRRequests = 0
    /\ uploadHistory = <<>>
    /\ reqFile = [r \in Requests |-> "unknown"]
    /\ pc = [r \in Requests |-> "pending"]
    /\ outcome = [r \in Requests |-> NoOutcome]
    /\ worker = [r \in Requests |-> "none"]
    /\ responses = [r \in Requests |-> <<>>]
    /\ webhooks = [r \in Requests |-> "none"]
    /\ webhookPayload = [r \in Requests |-> NoPayload]
    /\ receivedAt = [r \in Requests |-> NoTime]
    /\ now = 0

(* uploads without text fields *)
NoFields == [r \in Requests |-> EmptyBody]

Init ==
    /\ envMaxConcurrent \in EnvValues
    /\ webhookUrl \in BOOLEAN
    /\ Started
    /\ reqBody = NoFields
    /\ PureIdle

Respond_andFallThrough(r, response) ==
    /\ responses' = [responses EXCEPT ![r] = Append(Append(@, response), ErrorResponse)]
    /\ pc' = [pc EXCEPT ![r] = "responded"]

Respond(r, response) ==
    /\ responses' = [responses EXCEPT ![r] = Append(@, response)]
    /\ pc' = [pc EXCEPT ![r] = "responded"]

(* POST /api/upload, from the start of the handler to its first await.    *)
(* Requests are numbered in the order in which they reach the handler.    *)
Upload_gateFirst(r, hasFile) ==
    /\ pc[r] = "pending"
    /\ \A q \in Requests : q < r => pc[q] # "pending"
    /\ reqFile' = [reqFile EXCEPT ![r] = IF hasFile THEN "file" ELSE "missing"]
    /\ IF GateFull(activeOCRRequests, MAX_CONCURRENT_OCR)
       THEN /\ Respond(r, RejectionBody(activeOCRRequests, MAX_CONCURRENT_OCR))
            /\ UNCHANGED <<activeOCRRequests, receivedAt>>
       ELSE IF ~hasFile
       THEN /\ Respond(r, NoFileResponse)
            /\ UNCHANGED <<activeOCRRequests, receivedAt>>
       ELSE /\ activeOCRRequests' = activeOCRRequests + 1
            /\ receivedAt' = [receivedAt EXCEPT ![r] = now]
            /\ pc' = [pc EXCEPT ![r] = "createWorker"]
            /\ UNCHANGED responses
    /\ UNCHANGED <<envMaxConcurrent, webhookUrl, uploadHistory, outcome, worker,
                   webhooks, webhookPayload, worldVars, pureVars>>

Upload(r, hasFile) ==
    /\ pc[r] = "pending"
    /\ \A q \in Requests : q < r => pc[q] # "pending"
    /\ reqFile' = [reqFile EXCEPT ![r] = IF hasFile THEN "file" ELSE "missing"]
    /\ IF ~hasFile
       THEN /\ Respond(r, NoFileResponse)
            /\ UNCHANGED <<activeOCRRequests, receivedAt>>
       ELSE IF GateFull(activeOCRRequests, MAX_CONCURRENT_OCR)
       THEN /\ Respond(r, RejectionBody(activeOCRRequests, MAX_CONCURRENT_OCR))
            /\ UNCHANGED <<activeOCRRequests, receivedAt>>
       ELSE /\ activeOCRRequests' = activeOCRRequests + 1
            /\ receivedAt' = [receivedAt EXCEPT ![r] = now]
            /\ pc' = [pc EXCEPT ![r] = "createWorker"]
            /\ UNCHANGED responses
    /\ UNCHANGED <<envMaxConcurrent, webhookUrl, uploadHistory, outcome, worker,
                   webhooks, webhookPayload, worldVars, pureVars>>

(* recognizeWeight: await createWorker(...), before the try block *)
CreateWorker(r, ok) ==
    /\ pc[r] = "createWorker"
    /\ IF ok
       THEN /\ worker' = [worker EXCEPT ![r] = "created"]
            /\ pc' = [pc EXCEPT ![r] = "setParameters"]
            /\ UNCHANGED outcome
       ELSE /\ outcome' = [outcome EXCEPT ![r] = Failure]
            /\ pc' = [pc EXCEPT ![r] = "settled"]
            /\ UNCHANGED worker
    /\ UNCHANGED <<envMaxConcurrent, webhookUrl, activeOCRRequests, uploadHistory,
                   reqFile, responses, webhooks, webhookPayload,
                   receivedAt, worldVars, pureVars>>

(* recognizeWeight: await worker.setParameters(...) *)
SetParameters_outsideTry(r, ok) ==
    /\ pc[r] = "setParameters"
    /\ IF ok
       THEN /\ pc' = [pc EXCEPT ![r] = "recognize"]
            /\ UNCHANGED outcome
       ELSE /\ outcome' = [outcome EXCEPT ![r] = Failure]
            /\ pc' = [pc EXCEPT ![r] = "settled"]
    /\ UNCHANGED <<envMaxConcurrent, webhookUrl, activeOCRRequests, uploadHistory,
                   reqFile, worker, responses, webhooks, webhookPayload,
                   receivedAt, worldVars, pureVars>>

SetParameters(r, ok) ==
    /\ pc[r] = "setParameters"
    /\ IF ok
       THEN /\ pc' = [pc EXCEPT ![r] = "recognize"]
            /\ UNCHANGED outcome
       ELSE /\ outcome' = [outcome EXCEPT ![r] = Failure]
            /\ pc' = [pc EXCEPT ![r] = "terminate"]
    /\ UNCHANGED <<envMaxConcurrent, webhookUrl, activeOCRRequests, uploadHistory,
                   reqFile, worker, responses, webhooks, webhookPayload,
                   receivedAt, worldVars, pureVars>>

(* recognizeWeight: await worker.recognize(imagePath), then the extraction *)
Recognize(r, ok, data) ==
    /\ pc[r] = "recognize"
    /\ outcome' = [outcome EXCEPT ![r] = IF ok THEN Success(RecognitionResult(data))
                                         ELSE Failure]
    /\ pc' = [pc EXCEPT ![r] = "terminate"]
    /\ UNCHANGED <<envMaxConcurrent, webhookUrl, activeOCRRequests, uploadHistory,
                   reqFile, worker, responses, webhooks, webhookPayload,
                   receivedAt, worldVars, pureVars>>

(* recognizeWeight: finally { await worker.terminate() }; an error thrown  *)
(* by terminate replaces the pending return value                          *)
Terminate_leaksWorker(r, ok) ==
    /\ pc[r] = "terminate"
    /\ worker' = worker
    /\ outcome' = [outcome EXCEPT ![r] = IF ok THEN @ ELSE Failure]
    /\ pc' = [pc EXCEPT ![r] = "settled"]
    /\ UNCHANGED <<envMaxConcurrent, webhookUrl, activeOCRRequests, uploadHistory,
                   reqFile, responses, webhooks, webhookPayload,
                   receivedAt, worldVars, pureVars>>

Terminate(r, ok) ==
    /\ pc[r] = "terminate"
    /\ worker' = [worker EXCEPT ![r] = "terminated"]
    /\ outcome' = [outcome EXCEPT ![r] = IF ok THEN @ ELSE Failure]
    /\ pc' = [pc EXCEPT ![r] = "settled"]
    /\ UNCHANGED <<envMaxConcurrent, webhookUrl, activeOCRRequests, uploadHistory,
                   reqFile, responses, webhooks, webhookPayload,
                   receivedAt, worldVars, pureVars>>

(* the handler of r goes on past its await only when the recognizeWeight   *)
(* call it made has returned or thrown: nothing else wakes it              *)
OcrSettled_orTimedOut(r) == pc[r] \in {"recognize", "settled"}
OcrSettled(r) == pc[r] = "settled"

(* POST /api/upload, from the settling of recognizeWeight to the end of    *)
(* the handler: the finally block, then either the history entry, the      *)
(* webhook and the 200 response, or the catch block and the 500 response   *)
Complete(r) ==
    /\ OcrSettled(r)
    /\ activeOCRRequests' = CounterAfterOCR(activeOCRRequests, outcome[r])
    /\ IF outcome[r].ok
       THEN LET responseData == ResponseData(r, outcome[r].result, receivedAt[r],
                                             Metadata(reqBody[r]))
            IN  /\ uploadHistory' = SaveToHistory(uploadHistory, responseData)
                /\ webhooks' = [webhooks EXCEPT ![r] = IF webhookUrl THEN "sent" ELSE @]
                /\ webhookPayload' =
                      [webhookPayload EXCEPT ![r] =
                          IF webhookUrl THEN WebhookPayload(responseData, now) ELSE @]
                /\ Respond(r, OkResponse(responseData))
       ELSE /\ Respond(r, ErrorResponse)
            /\ UNCHANGED <<uploadHistory, webhooks, webhookPayload>>
    /\ outcome' = [outcome EXCEPT ![r] = NoOutcome]
    /\ UNCHANGED <<envMaxConcurrent, webhookUrl, reqFile, worker, receivedAt,
                   worldVars, pureVars>>

(* how the fetch of a webhook call can end: a 2xx answer, another answer,  *)
(* or an error thrown by fetch                                              *)
WebhookResults == {"delivered", "notOk", "threw"}

(* sendWebhook after its await: the answer or the error is logged inside   *)
(* its try/catch and the promise resolves; nothing waits for it             *)
WebhookSettle_uncaught(r, result) ==
    /\ webhooks[r] = "sent"
    /\ webhooks' = [webhooks EXCEPT ![r] = result]
    /\ responses' = [responses EXCEPT ![r] =
                        IF result = "threw" THEN Append(@, ErrorResponse) ELSE @]
    /\ UNCHANGED <<envMaxConcurrent, webhookUrl, activeOCRRequests, uploadHistory,
                   reqFile, pc, outcome, worker, webhookPayload, receivedAt,
                   worldVars, pureVars>>

WebhookSettle(r, result) ==
    /\ webhooks[r] = "sent"
    /\ webhooks' = [webhooks EXCEPT ![r] = result]
    /\ UNCHANGED <<envMaxConcurrent, webhookUrl, activeOCRRequests, uploadHistory,
                   reqFile, pc, outcome, worker, responses, webhookPayload,
                   receivedAt, worldVars, pureVars>>

Next ==
    \/ \E r \in Requests, hasFile \in BOOLEAN : Upload(r, hasFile)
    \/ \E r \in Requests, ok \in BOOLEAN : CreateWorker(r, ok)
    \/ \E r \in Requests, ok \in BOOLEAN : SetParameters(r, ok)
    \/ \E r \in Requests, ok \in BOOLEAN :
          \E t \in OcrTexts, c \in EngineConfidences :
             Recognize(r, ok, [text |-> t, confidence |-> c])
    \/ \E r \in Requests, ok \in BOOLEAN : Terminate(r, ok)
    \/ \E r \in Requests : Complete(r)
    \/ \E r \in Requests, result \in WebhookResults : WebhookSettle(r, result)

Spec == Init /\ [][Next]_vars

(* the next step of the recognizeWeight call of r, or of its handler once  *)
(* the call has settled                                                    *)
Progress(r) ==
    \/ \E ok \in BOOLEAN : CreateWorker(r, ok)
    \/ \E ok \in BOOLEAN : SetParameters(r, ok)
    \/ \E ok \in BOOLEAN :
          \E t \in OcrTexts, c \in EngineConfidences :
             Recognize(r, ok, [text |-> t, confidence |-> c])
    \/ \E ok \in BOOLEAN : Terminate(r, ok)
    \/ Complete(r)

(* every await of a recognizeWeight call settles in the end, and the event *)
(* loop then runs the continuation that waits for it; uploads arrive or    *)
(* not as clients please                                                   *)
FairSpec == Spec /\ \A r \in Requests : WF_vars(Progress(r))

(* time passes *)
MaxClock == 1

Tick ==
    /\ now < MaxClock
    /\ now' = now + 1
    /\ UNCHANGED <<envMaxConcurrent, webhookUrl, activeOCRRequests, uploadHistory,
                   reqFile, pc, outcome, worker, responses, webhooks, webhookPayload,
                   receivedAt, reqBody, pureVars>>

(* the server with a limit of 1 and a webhook, receiving uploads with      *)
(* text fields while time passes                                           *)
InitRecords ==
    /\ envMaxConcurrent = EnvString(<<"1">>)
    /\ webhookUrl = TRUE
    /\ Started
    /\ reqBody \in BodySeries
    /\ PureIdle

NextRecords == Next \/ Tick

SpecRecords == InitRecords /\ [][NextRecords]_vars

(* the server with the default limit of 2 and no webhook, so that uploads  *)
(* overlap, while time passes                                              *)
InitOverlap ==
    /\ envMaxConcurrent = Unset
    /\ webhookUrl = FALSE
    /\ Started
    /\ reqBody = NoFields
    /\ PureIdle

NextOverlap ==
    \/ \E r \in Requests, hasFile \in BOOLEAN : Upload(r, hasFile)
    \/ \E r \in Requests : Progress(r)
    \/ Tick

SpecOverlap == InitOverlap /\ [][NextOverlap]_vars

(* runs of the extractor alone, the server untouched *)
InitExtract ==
    /\ envMaxConcurrent = Unset
    /\ webhookUrl = FALSE
    /\ Started
    /\ reqBody = NoFields
    /\ text \in Texts(MaxLen, MaxTokens)
    /\ extracted = NoResult
    /\ extractedAgain = NoResult
    /\ ocrData = NoData
    /\ recognized = NoRecognition
    /\ param = <<>>
    /\ served = NoAnswer

Extract ==
    /\ extracted = NoResult
    /\ extracted' = extractWeightFromText(text)
    /\ UNCHANGED <<text, extractedAgain, ocrData, recognized, param, served, serverVars>>

NextExtract == Extract

(* the extractor applied to the value it has just returned *)
ExtractAgain ==
    /\ extracted # NoResult
    /\ extractedAgain = NoResult
    /\ extractedAgain' = extractWeightFromText(extracted.value)
    /\ UNCHANGED <<text, extracted, ocrData, recognized, param, served, serverVars>>

NextExtractTwice == Extract \/ ExtractAgain

SpecExtractTwice == InitExtract /\ [][NextExtractTwice]_vars

SpecExtract == InitExtract /\ [][NextExtract]_vars

(* runs of the return statement of recognizeWeight alone: the engine's    *)
(* confidence ranges over its whole scale, 0 to 100                        *)
EngineScale == 0..100
EngineTexts == OcrTexts \cup { <<"1", "\n", "1", "2">>, <<"k", "g">> }

InitRecognition ==
    /\ envMaxConcurrent = Unset
    /\ webhookUrl = FALSE
    /\ Started
    /\ reqBody = NoFields
    /\ text = <<>>
    /\ extracted = NoResult
    /\ extractedAgain = NoResult
    /\ ocrData \in [text : EngineTexts, confidence : EngineScale]
    /\ recognized = NoRecognition
    /\ param = <<>>
    /\ served = NoAnswer

Recognition ==
    /\ recognized = NoRecognition
    /\ recognized' = RecognitionResult(ocrData)
    /\ UNCHANGED <<text, extracted, extractedAgain, ocrData, param, served, serverVars>>

NextRecognition == Recognition

SpecRecognition == InitRecognition /\ [][NextRecognition]_vars

(* the record of the i-th latest of the uploads that succeeded before the  *)
(* ones followed here                                                      *)
EarlierResult == RecognitionResult([text |-> <<"1">>, confidence |-> 88])
EarlierRecord(i) == ResponseData(0 - i, EarlierResult, 0, EmptyBody)

(* the history after k such uploads, the latest first *)
EarlierHistory(k) == [i \in 1..k |-> EarlierRecord(i)]

(* the server with a webhook and the default limit after no, 49 or 50      *)
(* successful uploads, all of them answered                                *)
HistoryFills == {0, HISTORY_LIMIT - 1, HISTORY_LIMIT}

InitHistory ==
    /\ envMaxConcurrent = Unset
    /\ webhookUrl = TRUE
    /\ activeOCRRequests = 0
    /\ uploadHistory \in {EarlierHistory(k) : k \in HistoryFills}
    /\ reqFile = [r \in Requests |-> "unknown"]
    /\ pc = [r \in Requests |-> "pending"]
    /\ outcome = [r \in Requests |-> NoOutcome]
    /\ worker = [r \in Requests |-> "none"]
    /\ responses = [r \in Requests |-> <<>>]
    /\ webhooks = [r \in Requests |-> "none"]
    /\ webhookPayload = [r \in Requests |-> NoPayload]
    /\ receivedAt = [r \in Requests |-> NoTime]
    /\ now = 0
    /\ reqBody = NoFields
    /\ PureIdle

SpecHistory == InitHistory /\ [][Next]_vars

----------------------------------------------------------------------------
(* GET /uploads/:filename.  Paths are sequences of characters. *)

(* path.normalize for POSIX paths: the segments between slashes, with      *)
(* empty segments and "." dropped and ".." taking back the segment before  *)
(* it; ".." at the root of an absolute path is dropped                     *)
RECURSIVE SegmentEnd(_, _)
SegmentEnd(s, i) == IF i <= Len(s) /\ s[i] # "/" THEN SegmentEnd(s, i + 1) ELSE i

RECURSIVE Segments(_, _)
Segments(s, i) ==
    IF i > Len(s) THEN <<>>
    ELSE IF s[i] = "/" THEN Segments(s, i + 1)
    ELSE <<SubSeq(s, i, SegmentEnd(s, i) - 1)>> \o Segments(s, SegmentEnd(s, i))

DotDot == <<".", ".">>

RECURSIVE ResolveDots(_, _, _)
ResolveDots(segs, done, absolute) ==
    IF segs = <<>> THEN done
    ELSE LET seg == Head(segs)
             rest == Tail(segs)
         IN  IF seg = <<".">> THEN ResolveDots(rest, done, absolute)
             ELSE IF seg = DotDot
             THEN IF done # <<>> /\ done[Len(done)] # DotDot
                  THEN ResolveDots(rest, SubSeq(done, 1, Len(done) - 1), absolute)
                  ELSE IF absolute THEN ResolveDots(rest, done, absolute)
                  ELSE ResolveDots(rest, Append(done, seg), absolute)
             ELSE ResolveDots(rest, Append(done, seg), absolute)

RECURSIVE JoinSegments(_)
JoinSegments(segs) ==
    IF segs = <<>> THEN <<>>
    ELSE IF Len(segs) = 1 THEN segs[1]
    ELSE segs[1] \o <<"/">> \o JoinSegments(Tail(segs))

PathNormalize(p) ==
    IF p = <<>> THEN <<".">>
    ELSE LET absolute == p[1] = "/"
             trailing == p[Len(p)] = "/"
             body == JoinSegments(ResolveDots(Segments(p, 1), <<>>, absolute))
             tailed == IF body # <<>> /\ trailing THEN body \o <<"/">> ELSE body
         IN  IF absolute THEN <<"/">> \o tailed
             ELSE IF body = <<>> THEN (IF trailing THEN <<".", "/">> ELSE <<".">>)
             ELSE tailed

(* path.join(a, b): the non-empty arguments joined by a slash, normalized *)
PathJoin(a, b) ==
    IF b = <<>> THEN PathNormalize(a)
    ELSE IF a = <<>> THEN PathNormalize(b)
    ELSE PathNormalize(a \o <<"/">> \o b)

(* String.prototype.startsWith: prefix is a prefix of s, character by      *)
(* character                                                               *)
StartsWith(s, prefix) ==
    /\ Len(prefix) <= Len(s)
    /\ SubSeq(s, 1, Len(prefix)) = prefix

(* the directory of the compiled server.js, and the uploads directory     *)
(* beside it                                                               *)
Uploads == <<"u", "p", "l", "o", "a", "d", "s">>
UploadsOld == Uploads \o <<"-", "o", "l", "d">>
DirName == <<"/", "a", "p", "p", "/", "d", "i", "s", "t">>
uploadsDir == PathJoin(DirName, DotDot \o <<"/">> \o Uploads)

(* the files on disk: an uploaded image, an image in a directory beside    *)
(* the uploads directory whose name begins like it, and a file above       *)
Files ==
    { uploadsDir \o <<"/", "x">>,
      <<"/", "a", "p", "p", "/">> \o UploadsOld \o <<"/", "x">>,
      <<"/", "a", "p", "p", "/", "x">> }

(* the directories on disk: those that hold a file, up to the root *)
IsDirectory(path) ==
    \E f \in Files : \E i \in 1..Len(f) :
        f[i] = "/" /\ (path = SubSeq(f, 1, i - 1) \/ path = SubSeq(f, 1, i))

(* fs.existsSync *)
ExistsSync(path) == path \in Files \/ IsDirectory(path)

(* the handler of GET /uploads/:filename for the decoded parameter:        *)
(* 403 when the joined path does not start with the uploads directory,     *)
(* 404 when nothing exists at it, otherwise res.sendFile, which sends a    *)
(* file and fails on a directory                                           *)
ServeImage(filename) ==
    LET filepath == PathJoin(uploadsDir, filename)
    IN  IF ~StartsWith(filepath, uploadsDir) THEN [status |-> 403, file |-> <<>>]
        ELSE IF ~ExistsSync(filepath) THEN [status |-> 404, file |-> <<>>]
        ELSE IF filepath \in Files THEN [status |-> 200, file |-> filepath]
        ELSE [status |-> 500, file |-> <<>>]

(* the decoded filename parameters: a path segment of the URL, in which    *)
(* an encoded slash has become a slash; never empty                        *)
MaxParamTokens == 5
ParamTokens == { DotDot, <<"/">>, <<".">>, <<"x">>, Uploads, UploadsOld }

RECURSIVE Params(_)
Params(n) ==
    IF n = 1 THEN ParamTokens
    ELSE LET shorter == Params(n - 1)
         IN  shorter \cup {t \o q : t \in ParamTokens, q \in shorter}

InitServe ==
    /\ envMaxConcurrent = Unset
    /\ webhookUrl = FALSE
    /\ Started
    /\ reqBody = NoFields
    /\ text = <<>>
    /\ extracted = NoResult
    /\ extractedAgain = NoResult
    /\ ocrData = NoData
    /\ recognized = NoRecognition
    /\ param \in Params(MaxParamTokens)
    /\ served = NoAnswer

Serve ==
    /\ served = NoAnswer
    /\ served' = ServeImage(param)
    /\ UNCHANGED <<text, extracted, extractedAgain, ocrData, recognized, param,
                   serverVars>>

NextServe == Serve

SpecServe == InitServe /\ [][NextServe]_vars

----------------------------------------------------------------------------
(* What the statements about the admission gate speak of *)

InFlightStates == {"createWorker", "setParameters", "recognize", "terminate", "settled"}

(* r has passed the gate and its handler has not yet left the finally block *)
InFlight(r) == pc[r] \in InFlightStates

InFlightCount == Cardinality({r \in Requests : InFlight(r)})

HasStatus(r, status) == responses[r] # <<>> /\ responses[r][1].status = status

InHistory(r) == \E i \in 1..Len(uploadHistory) : uploadHistory[i].filename = r

(* the limit is a number and the counter is below it *)
BelowLimit(active, max) == ~max.nan /\ active < max.n

(* in this step the handler of r runs from its start with a file *)
UploadsFile(r) == pc[r] = "pending" /\ pc'[r] # "pending" /\ reqFile'[r] = "file"

(* in this step r is admitted: counter up by one, recognition started,     *)
(* no response                                                             *)
AdmittedNow(r) ==
    /\ activeOCRRequests' = activeOCRRequests + 1
    /\ pc'[r] = "createWorker"
    /\ responses'[r] = <<>>

(* in this step r is answered 429 and nothing else happens *)
RejectedNow(r) ==
    /\ pc'[r] = "responded"
    /\ Len(responses'[r]) = 1 /\ responses'[r][1].status = 429
    /\ UNCHANGED <<activeOCRRequests, uploadHistory, outcome, worker, webhooks>>

(* C1: with an integer limit of at least 1, the counter stays between 0    *)
(* and the limit in every reachable state.                                 *)
C1_CounterWithinLimit ==
    (~MAX_CONCURRENT_OCR.nan /\ MAX_CONCURRENT_OCR.n >= 1) =>
        (0 <= activeOCRRequests /\ activeOCRRequests <= MAX_CONCURRENT_OCR.n)

(* the counter stands at a limit of 2 after another request has failed    *)
(* and released its slot                                                   *)
C1_Witness ==
    /\ MAX_CONCURRENT_OCR = Num(2) /\ activeOCRRequests = 2
    /\ \E q \in Requests : HasStatus(q, 500)

(* C2, as stated: a request with a file is admitted if and only if the     *)
(* counter is below the limit at the check; admission raises the counter   *)
(* by one in the same step; otherwise the request is answered 429 in that  *)
(* step, and a request once answered is never admitted later.              *)
C2_AdmittedIffBelowLimit ==
    [][\A r \in Requests :
          /\ UploadsFile(r) =>
                IF BelowLimit(activeOCRRequests, MAX_CONCURRENT_OCR)
                THEN AdmittedNow(r)
                ELSE RejectedNow(r)
          /\ pc[r] = "responded" =>
                pc'[r] = "responded" /\ responses'[r] = responses[r]]_vars

(* C3: with a limit N, an upload attempted while N recognitions are in     *)
(* flight is rejected, and an upload attempted while fewer are in flight,  *)
(* as after an exit, is granted; N in flight at once is reached.           *)
C3_RejectAtLimitGrantBelow ==
    [][\A r \in Requests :
          (UploadsFile(r) /\ ~MAX_CONCURRENT_OCR.nan) =>
              /\ InFlightCount = MAX_CONCURRENT_OCR.n => RejectedNow(r)
              /\ InFlightCount < MAX_CONCURRENT_OCR.n => AdmittedNow(r)
              /\ InFlightCount <= MAX_CONCURRENT_OCR.n \/ MAX_CONCURRENT_OCR.n < 0]_vars

(* as many requests in flight as the limit allows, a request rejected at  *)
(* the limit, and a request that arrived after the rejected one in flight: *)
(* a slot was released in between                                          *)
C3_Witness ==
    /\ ~MAX_CONCURRENT_OCR.nan /\ MAX_CONCURRENT_OCR.n >= 1
    /\ InFlightCount = MAX_CONCURRENT_OCR.n
    /\ \E q, r \in Requests :
          /\ q < r
          /\ responses[q] = <<RejectionBody(MAX_CONCURRENT_OCR.n, MAX_CONCURRENT_OCR)>>
          /\ InFlight(r)

(* C4: a request leaves the guarded section only through the step that     *)
(* lowers the counter by exactly one, whether recognizeWeight returned or  *)
(* threw; it never leaves twice; the counter never goes down otherwise.    *)
C4_DecrementExactlyOnce ==
    [][/\ \A r \in Requests :
             /\ (InFlight(r) /\ pc'[r] \notin InFlightStates) =>
                    /\ pc[r] = "settled" /\ pc'[r] = "responded"
                    /\ activeOCRRequests' = activeOCRRequests - 1
             /\ pc[r] = "responded" => pc'[r] = "responded"
       /\ activeOCRRequests' < activeOCRRequests =>
             Cardinality({r \in Requests : InFlight(r) /\ pc'[r] = "responded"}) = 1
       /\ activeOCRRequests' >= activeOCRRequests =>
             \A r \in Requests : InFlight(r) => pc'[r] \in InFlightStates]_vars

(* one request has left after a failure, one after a success, and the      *)
(* counter is back at 0                                                    *)
C4_Witness ==
    /\ activeOCRRequests = 0
    /\ \E q, r \in Requests : HasStatus(q, 500) /\ HasStatus(r, 200)

(* C5: a request whose recognizeWeight call failed holds its slot until    *)
(* its handler answers; it is answered 500 and nothing else, in the step   *)
(* that takes its slot off the counter, and it leaves the history and the  *)
(* webhooks as they were.                                                  *)
C5_FailureReleasesAndReports ==
    /\ [](\A r \in Requests :
             /\ outcome[r] = Failure => InFlight(r) /\ responses[r] = <<>>
             /\ HasStatus(r, 500) =>
                   ~InFlight(r) /\ ~InHistory(r) /\ webhooks[r] = "none")
    /\ [][\A r \in Requests :
             (outcome[r] = Failure /\ pc[r] = "settled" /\ pc'[r] # "settled") =>
                 /\ responses'[r] = <<[status |-> 500]>>
                 /\ activeOCRRequests' = activeOCRRequests - 1
                 /\ activeOCRRequests' =
                       Cardinality({q \in Requests : q # r /\ InFlight(q)})
                 /\ UNCHANGED <<uploadHistory, webhooks>>]_vars

(* with the webhook configured, a request whose recognition threw has been *)
(* answered 500 while another request is still in flight                   *)
C5_Witness ==
    /\ webhookUrl
    /\ \E q, r \in Requests :
          /\ HasStatus(r, 500) /\ worker[r] = "terminated"
          /\ InFlight(q) /\ activeOCRRequests = 1

(* C6: a request with a file that is not admitted is answered 429 with the *)
(* count seen at the check and the limit, in a step that leaves counter,   *)
(* history, workers and webhooks as they were; a request answered 429      *)
(* never has a worker, a history record or a webhook.                      *)
C6_RejectionReportsAndChangesNothing ==
    /\ [](\A r \in Requests :
             HasStatus(r, 429) =>
                 /\ pc[r] = "responded" /\ worker[r] = "none"
                 /\ ~InHistory(r) /\ webhooks[r] = "none")
    /\ [][\A r \in Requests :
             (UploadsFile(r) /\ pc'[r] \notin InFlightStates) =>
                 /\ RejectedNow(r)
                 /\ responses'[r][1].activeRequests = activeOCRRequests
                 /\ responses'[r][1].maxConcurrent = MAX_CONCURRENT_OCR
                 /\ activeOCRRequests = InFlightCount]_vars

(* a request was rejected with limit 1 while another was in flight         *)
C6_Witness ==
    /\ MAX_CONCURRENT_OCR = Num(1)
    /\ \E q, r \in Requests :
          /\ InFlight(q) /\ q < r
          /\ responses[r] = <<[status |-> 429, activeRequests |-> 1,
                               maxConcurrent |-> Num(1)]>>

----------------------------------------------------------------------------
(* What the statements about the extractor speak of, said without the scan *)

HasDigit(s) == \E i \in 1..Len(s) : IsDigit(s[i])

(* digits, one separator, digits *)
IsDecimalSub(s, i, j) ==
    /\ 1 <= i /\ i < j /\ j <= Len(s)
    /\ \E k \in (i + 1)..(j - 1) :
          /\ s[k] \in Separators
          /\ \A m \in i..j : m # k => IsDigit(s[m])

HasDecimal(s) == \E i \in 1..Len(s) : \E j \in i..Len(s) : IsDecimalSub(s, i, j)

(* a decimal substring that no longer decimal substring contains *)
IsMaximalDecimal(s, i, j) ==
    /\ IsDecimalSub(s, i, j)
    /\ (i = 1 \/ ~IsDigit(s[i - 1]))
    /\ (j = Len(s) \/ ~IsDigit(s[j + 1]))

(* a maximal run of digits *)
IsDigitRun(s, i, j) ==
    /\ 1 <= i /\ i <= j /\ j <= Len(s)
    /\ \A m \in i..j : IsDigit(s[m])
    /\ (i = 1 \/ ~IsDigit(s[i - 1]))
    /\ (j = Len(s) \/ ~IsDigit(s[j + 1]))

(* the start of the chain digits-separator-digits-separator-... that ends  *)
(* right before position i                                                  *)
ChainStart(s, i) ==
    CHOOSE p \in 1..i :
        /\ \A m \in p..(i - 1) : IsDigit(s[m]) \/ s[m] \in Separators
        /\ \A m \in p..(i - 2) : ~(s[m] \in Separators /\ s[m + 1] \in Separators)
        /\ (p < i => IsDigit(s[p]))
        /\ \A q \in 1..(p - 1) :
              ~(/\ \A m \in q..(i - 1) : IsDigit(s[m]) \/ s[m] \in Separators
                /\ \A m \in q..(i - 2) : ~(s[m] \in Separators /\ s[m + 1] \in Separators)
                /\ IsDigit(s[q]))

SeparatorsIn(s, i, j) == Cardinality({m \in i..j : s[m] \in Separators})

(* a maximal decimal whose integer part is not the fraction of the decimal *)
(* match before it: an even number of separators lies between the start    *)
(* of its chain and its own start                                          *)
IsScanDecimal(s, i, j) ==
    /\ IsMaximalDecimal(s, i, j)
    /\ SeparatorsIn(s, ChainStart(s, i), i - 1) % 2 = 0

WithDot(s) == [m \in 1..Len(s) |-> IF s[m] = "," THEN "." ELSE s[m]]

(* the words of s, and the words joined by single spaces *)
RECURSIVE WordEnd(_, _)
WordEnd(s, i) == IF i <= Len(s) /\ ~IsSpace(s[i]) THEN WordEnd(s, i + 1) ELSE i

RECURSIVE Words(_, _)
Words(s, i) ==
    IF i > Len(s) THEN <<>>
    ELSE IF IsSpace(s[i]) THEN Words(s, i + 1)
    ELSE <<SubSeq(s, i, WordEnd(s, i) - 1)>> \o Words(s, WordEnd(s, i))

RECURSIVE JoinWords(_)
JoinWords(ws) ==
    IF ws = <<>> THEN <<>>
    ELSE IF Len(ws) = 1 THEN ws[1]
    ELSE ws[1] \o <<" ">> \o JoinWords(Tail(ws))

Ran == extracted # NoResult

Normalized == JoinWords(Words(text, 1))

(* (i, j) is the longest substring of its kind in s, the first among      *)
(* those of equal length                                                  *)
FirstLongestDecimalSub(s, i, j) ==
    /\ IsDecimalSub(s, i, j)
    /\ \A a \in 1..Len(s) : \A b \in a..Len(s) :
          IsDecimalSub(s, a, b) => (b - a < j - i \/ (b - a = j - i /\ a >= i))

FirstLongestScanDecimal(s, i, j) ==
    /\ IsScanDecimal(s, i, j)
    /\ \A a \in 1..Len(s) : \A b \in a..Len(s) :
          IsScanDecimal(s, a, b) => (b - a < j - i \/ (b - a = j - i /\ a >= i))

FirstLongestDigitRun(s, i, j) ==
    /\ IsDigitRun(s, i, j)
    /\ \A a \in 1..Len(s) : \A b \in a..Len(s) :
          IsDigitRun(s, a, b) => (b - a < j - i \/ (b - a = j - i /\ a >= i))

(* C7, as stated: when the text has a decimal pattern, the extractor       *)
(* returns the longest decimal substring of the whitespace-normalized      *)
(* text, the first of the longest, with '.' as separator, and confidence   *)
(* 0.95.                                                                   *)
C7_LongestDecimalSubstring ==
    (Ran /\ HasDecimal(text)) =>
        \E i \in 1..Len(Normalized) : \E j \in i..Len(Normalized) :
            /\ FirstLongestDecimalSub(Normalized, i, j)
            /\ extracted = [value |-> WithDot(SubSeq(Normalized, i, j)), confidence |-> 95]

(* C7, amended: when the text has a decimal pattern, the extractor returns *)
(* the longest of the decimal matches of a left-to-right scan without      *)
(* overlap (a digit run that is the fraction of one match does not start   *)
(* the next), the first of the longest, with '.' as separator, and         *)
(* confidence 0.95, whatever whole numbers are present.                    *)
C7_LongestDecimalMatch ==
    (Ran /\ HasDecimal(text)) =>
        \E i \in 1..Len(Normalized) : \E j \in i..Len(Normalized) :
            /\ FirstLongestScanDecimal(Normalized, i, j)
            /\ extracted = [value |-> WithDot(SubSeq(Normalized, i, j)), confidence |-> 95]

(* a decimal with a comma was returned with a dot although a longer whole  *)
(* number stands elsewhere in the text                                     *)
C7_Witness ==
    /\ Ran /\ extracted.confidence = 95
    /\ \E i \in 1..Len(text) : \E j \in i..Len(text) :
          /\ IsScanDecimal(text, i, j)
          /\ \E m \in i..j : text[m] = ","
          /\ extracted.value = WithDot(SubSeq(text, i, j))
          /\ \E a \in 1..Len(text) : \E b \in a..Len(text) :
                IsDigitRun(text, a, b) /\ b - a > j - i /\ (b < i \/ a > j)

(* C8: when the text has no decimal pattern but has a digit, the extractor *)
(* returns the longest maximal run of digits of the text, the first of the *)
(* longest, with confidence 0.9.                                           *)
C8_LongestDigitRun ==
    (Ran /\ ~HasDecimal(text) /\ HasDigit(text)) =>
        \E i \in 1..Len(text) : \E j \in i..Len(text) :
            /\ FirstLongestDigitRun(text, i, j)
            /\ extracted = [value |-> SubSeq(text, i, j), confidence |-> 90]

(* a short run, a line break, then a longer run, as in "1\n1626"; and two  *)
(* runs of equal length that differ                                        *)
C8_Witness ==
    /\ Ran /\ extracted.confidence = 90
    /\ \E i \in 1..Len(text) :
          /\ text[i] = "\n"
          /\ IsDigitRun(text, 1, i - 1)
          /\ IsDigitRun(text, i + 1, Len(text))
          /\ Len(text) - i > i - 1
          /\ extracted.value = SubSeq(text, i + 1, Len(text))

C8_TieWitness ==
    /\ Ran /\ extracted.confidence = 90
    /\ \E i, a \in 1..Len(text) : \E j, b \in 1..Len(text) :
          /\ i < a /\ j - i = b - a
          /\ IsDigitRun(text, i, j) /\ IsDigitRun(text, a, b)
          /\ extracted.value = SubSeq(text, i, j)
          /\ extracted.value # SubSeq(text, a, b)

(* C9: when the text has no digit, the extractor returns the text with     *)
(* every whitespace run collapsed to one space and no whitespace at either *)
(* end, with confidence 0.5 (a result, never an error).                    *)
C9_NoDigitFallback ==
    (Ran /\ ~HasDigit(text)) =>
        extracted = [value |-> Normalized, confidence |-> 50]

(* a text without digits that starts with whitespace and has a whitespace *)
(* run with a line break between two words                                 *)
C9_Witness ==
    /\ Ran /\ ~HasDigit(text) /\ extracted.confidence = 50
    /\ Len(text) >= 5 /\ IsSpace(text[1])
    /\ \E i \in 2..(Len(text) - 3) :
          /\ ~IsSpace(text[i]) /\ IsSpace(text[i + 1]) /\ text[i + 2] = "\n"
          /\ ~IsSpace(text[i + 3])
    /\ Len(extracted.value) = Len(text) - 2

(* a digit run that is no part of a decimal: no digit-separator before it, *)
(* no separator-digit after it                                             *)
IsWholeNumber(s, i, j) ==
    /\ IsDigitRun(s, i, j)
    /\ ~(i > 2 /\ s[i - 1] \in Separators /\ IsDigit(s[i - 2]))
    /\ ~(j + 2 <= Len(s) /\ s[j + 1] \in Separators /\ IsDigit(s[j + 2]))

----------------------------------------------------------------------------
(* What the statements about the reported confidence speak of *)

(* the extractor's confidence for a text, in hundredths: 0.95 with a      *)
(* decimal pattern, 0.9 with digits only, 0.5 without digits              *)
LocalConfidence(t) ==
    IF HasDecimal(t) THEN 95 ELSE IF HasDigit(t) THEN 90 ELSE 50

(* C11: for every engine confidence c in 0..100 and every extractor       *)
(* confidence l, the confidence recognizeWeight reports is (c / 100) * l  *)
(* (c times l hundredths, in ten-thousandths) and lies in [0, 1]; c = 88  *)
(* and l = 0.95 give 0.836.                                               *)
C11_ConfidenceIsProduct ==
    recognized # NoRecognition =>
        /\ recognized.confidence = ocrData.confidence * LocalConfidence(ocrData.text)
        /\ 0 <= recognized.confidence /\ recognized.confidence <= 10000
        /\ (ocrData.confidence = 88 /\ LocalConfidence(ocrData.text) = 95)
              => recognized.confidence = 8360

(* engine confidence 88 on a text with a decimal: 0.836 was reported       *)
C11_Witness ==
    /\ recognized # NoRecognition
    /\ ocrData.confidence = 88 /\ HasDecimal(ocrData.text)
    /\ recognized.confidence = 8360

----------------------------------------------------------------------------
(* What the statements about the order of release and response speak of *)

(* in this step the handler of r sends a response with this status *)
Answers(r, status) ==
    /\ Len(responses'[r]) = Len(responses[r]) + 1
    /\ responses'[r][Len(responses'[r])].status = status

(* C13: for every admitted request, on the success and on the failure      *)
(* path, the counter has been lowered when the 200 or 500 response is      *)
(* sent: the step that sends it starts from a settled recognizeWeight      *)
(* call, takes one off the counter, and in the state in which the response *)
(* is visible the counter counts only the other requests in flight.        *)
C13_ReleasedBeforeResponse ==
    /\ [](\A r \in Requests :
             (HasStatus(r, 200) \/ HasStatus(r, 500)) =>
                 /\ ~InFlight(r)
                 /\ activeOCRRequests =
                       Cardinality({q \in Requests : q # r /\ InFlight(q)}))
    /\ [][\A r \in Requests :
             (Answers(r, 200) \/ Answers(r, 500)) =>
                 /\ pc[r] = "settled" /\ outcome[r].settled
                 /\ (Answers(r, 200) <=> outcome[r].ok)
                 /\ activeOCRRequests' = activeOCRRequests - 1
                 /\ ~InFlight(r)']_vars

(* one request has been answered 200 and one 500 while a third still       *)
(* holds the only slot in use                                              *)
C13_Witness ==
    \E p, q, r \in Requests :
        /\ HasStatus(p, 200) /\ HasStatus(q, 500)
        /\ InFlight(r) /\ activeOCRRequests = 1

----------------------------------------------------------------------------
(* What the statements about hanging recognitions speak of *)

(* r holds a slot and its recognizeWeight call has not settled *)
Unsettled(r) == pc[r] \in {"createWorker", "setParameters", "recognize", "terminate"}

UnsettledCount == Cardinality({r \in Requests : Unsettled(r)})

(* C14: there is no timeout and no cancellation. A request whose           *)
(* recognizeWeight call has not settled keeps its slot in every step, and  *)
(* gives it up only in a step of its own made after the call settled; so   *)
(* the counter never falls below the number of unsettled calls, and while  *)
(* as many calls as the limit are unsettled every upload with a file is    *)
(* answered 429 and changes nothing.                                       *)
C14_HangingCallHoldsSlot ==
    /\ [](activeOCRRequests >= UnsettledCount)
    /\ [][\A r \in Requests :
             /\ Unsettled(r) => InFlight(r)' /\ responses'[r] = <<>>
             /\ (InFlight(r) /\ ~InFlight(r)') => pc[r] = "settled"
             /\ (/\ ~MAX_CONCURRENT_OCR.nan
                 /\ UnsettledCount >= MAX_CONCURRENT_OCR.n
                 /\ UploadsFile(r)) => RejectedNow(r)]_vars

(* with a limit of 2, two recognitions are under way and have not          *)
(* returned, and a later upload has been answered 429                      *)
C14_Witness ==
    /\ MAX_CONCURRENT_OCR = Num(2) /\ activeOCRRequests = 2
    /\ \E p, q, r \in Requests :
          /\ p # q /\ pc[p] = "recognize" /\ pc[q] = "recognize"
          /\ HasStatus(r, 429)

----------------------------------------------------------------------------
(* What the statements about the webhook speak of *)

(* C15: the webhook call is fire and forget. It is started only with a     *)
(* webhook URL configured, in the step that has released the slot of a     *)
(* successful request and sends its 200 response, so that the response     *)
(* is there while the call is still pending; and however the call ends     *)
(* (2xx answer, other answer, error), or if it never ends, the counter,    *)
(* the history, the responses and the handlers stay as they are.           *)
C15_WebhookFireAndForget ==
    /\ [](\A r \in Requests :
             webhooks[r] # "none" =>
                 /\ webhookUrl
                 /\ HasStatus(r, 200) /\ Len(responses[r]) = 1
                 /\ ~InFlight(r))
    /\ [][\A r \in Requests :
             /\ (webhooks[r] = "none" /\ webhooks'[r] # "none") =>
                   /\ webhooks'[r] = "sent"
                   /\ pc[r] = "settled" /\ outcome[r].ok
                   /\ activeOCRRequests' = activeOCRRequests - 1
                   /\ Answers(r, 200)
             /\ (webhooks[r] # "none" /\ webhooks'[r] # webhooks[r]) =>
                   /\ webhooks[r] = "sent" /\ webhooks'[r] \in WebhookResults
                   /\ UNCHANGED <<activeOCRRequests, uploadHistory, responses,
                                  pc, outcome, worker>>
             /\ (webhookUrl /\ Answers(r, 200)) => webhooks'[r] = "sent"]_vars

(* one webhook call has thrown, one was answered with an error status and  *)
(* one is still pending; all three requests have their 200 responses       *)
C15_Witness ==
    /\ activeOCRRequests = 0 /\ Len(uploadHistory) = 3
    /\ \E p, q, r \in Requests :
          /\ webhooks[p] = "threw" /\ webhooks[q] = "notOk" /\ webhooks[r] = "sent"
          /\ HasStatus(p, 200) /\ HasStatus(q, 200) /\ HasStatus(r, 200)

----------------------------------------------------------------------------
(* What the statements about the upload record speak of *)

RecordFields ==
    {"weight", "confidence", "rawText", "filename", "imageUrl", "receivedAt", "metadata"}

(* the record the 200 response of r carries *)
Returned(r) == responses[r][1].data

(* the two records agree on the seven fields of an upload record *)
SameRecord(a, b) == \A f \in RecordFields : a[f] = b[f]

(* C16: the metadata returned for an upload is exactly the set of text     *)
(* fields its form carried, whatever their names and number; and one       *)
(* record of seven fields (weight, confidence, rawText, filename,          *)
(* imageUrl, receivedAt, metadata) built from the recognition result, the  *)
(* stored file and the time of admission is what the 200 response, the     *)
(* history entry and, with webhookSentAt added, the webhook body carry.    *)
C16_OneRecordEverywhere ==
    /\ [](\A r \in Requests :
             /\ HasStatus(r, 200) =>
                   /\ DOMAIN Returned(r) = RecordFields
                   /\ Returned(r).metadata = reqBody[r]
                   /\ Returned(r).filename = r
                   /\ Returned(r).imageUrl = <<"/uploads/", r>>
                   /\ Returned(r).receivedAt = receivedAt[r]
                   /\ receivedAt[r] # NoTime
                   /\ webhookUrl => webhookPayload[r] # NoPayload
             /\ webhookPayload[r] # NoPayload =>
                   /\ HasStatus(r, 200)
                   /\ DOMAIN webhookPayload[r] = RecordFields \cup {"webhookSentAt"}
                   /\ SameRecord(webhookPayload[r], Returned(r))
                   /\ webhookPayload[r].webhookSentAt \in 0..now
             /\ \A i \in 1..Len(uploadHistory) :
                   uploadHistory[i].filename = r =>
                       HasStatus(r, 200) /\ uploadHistory[i] = Returned(r))
    /\ [][\A r \in Requests :
             Answers(r, 200) =>
                 /\ Returned(r)'.weight = outcome[r].result.weight
                 /\ Returned(r)'.confidence = outcome[r].result.confidence
                 /\ Returned(r)'.rawText = outcome[r].result.rawText
                 /\ uploadHistory'[1] = Returned(r)'
                 /\ webhookPayload'[r].webhookSentAt = now]_vars

(* an upload with two text fields was answered with both as its metadata,  *)
(* its webhook body was stamped later than it was received, and the        *)
(* history holds it above an upload that carried one field                 *)
C16_Witness ==
    \E q, r \in Requests :
        /\ HasStatus(r, 200) /\ HasStatus(q, 200)
        /\ Cardinality(Returned(r).metadata) = 2
        /\ Cardinality(Returned(q).metadata) = 1
        /\ webhookPayload[r].webhookSentAt > Returned(r).receivedAt
        /\ Len(uploadHistory) = 2
        /\ uploadHistory[1] = Returned(r) /\ uploadHistory[2] = Returned(q)

----------------------------------------------------------------------------
(* What the statements about the image route speak of *)

(* the path the request resolves to *)
Resolved == PathJoin(uploadsDir, param)

(* path lies inside the directory dir: it is dir followed by a slash and   *)
(* at least one more segment                                               *)
Inside(path, dir) ==
    /\ Len(path) > Len(dir) + 1
    /\ SubSeq(path, 1, Len(dir)) = dir
    /\ path[Len(dir) + 1] = "/"

(* C17: GET /uploads/:filename is protected against directory traversal:   *)
(* for every filename parameter a file is served only if the resolved      *)
(* path lies inside the uploads directory, and a path that resolves        *)
(* outside it is answered 403.                                             *)
C17_NoTraversal ==
    served # NoAnswer =>
        /\ served.status = 200 => Inside(Resolved, uploadsDir)
        /\ (~Inside(Resolved, uploadsDir) /\ Resolved # uploadsDir
              /\ Resolved # uploadsDir \o <<"/">>) => served.status = 403

----------------------------------------------------------------------------
(* What the statements about the history speak of *)

(* history without its last record when it is full *)
RoomMade(history) ==
    IF Len(history) = 50 THEN SubSeq(history, 1, 49) ELSE history

(* C18: the history never holds more than 50 records.  A step that         *)
(* answers an upload 200 puts that upload's record at index 0 before the   *)
(* records that were there, dropping the last of them when there were 50;  *)
(* every other step, and so every 400, 429 and 500, leaves the history as  *)
(* it was.  The records are therefore the latest successful uploads in     *)
(* the order of their completion, newest first.                            *)
C18_HistoryKeepsLatestFifty ==
    /\ [](/\ Len(uploadHistory) <= 50
          /\ \A r \in Requests :
                (HasStatus(r, 400) \/ HasStatus(r, 429) \/ HasStatus(r, 500))
                    => ~InHistory(r))
    /\ [][/\ \A r \in Requests :
                Answers(r, 200) =>
                    uploadHistory' = <<Returned(r)'>> \o RoomMade(uploadHistory)
          /\ (\A r \in Requests : ~Answers(r, 200)) => UNCHANGED uploadHistory]_vars

(* on a full history two uploads have succeeded and one has failed: the    *)
(* two are at the head, later one first, and the two oldest records are    *)
(* gone                                                                    *)
C18_Witness ==
    /\ Len(uploadHistory) = 50
    /\ \E p, q, r \in Requests :
          /\ HasStatus(p, 500) /\ HasStatus(q, 200) /\ HasStatus(r, 200)
          /\ uploadHistory[1] = Returned(r) /\ uploadHistory[2] = Returned(q)
          /\ uploadHistory[3].filename = 0 - 1
          /\ uploadHistory[50].filename = 0 - 48

----------------------------------------------------------------------------
(* What the statements about the release of slots in the end speak of *)

(* C19: when every recognizeWeight call settles in the end, every          *)
(* admitted request releases its slot in the end; after a rejection the    *)
(* counter is below the limit at some later time, so that a retry can be   *)
(* admitted; and whenever no request is in flight the counter is 0.        *)
C19_SlotsReleasedInTheEnd ==
    /\ \A r \in Requests : InFlight(r) ~> ~InFlight(r)
    /\ \A r \in Requests :
          HasStatus(r, 429) ~> BelowLimit(activeOCRRequests, MAX_CONCURRENT_OCR)
    /\ [](InFlightCount = 0 => activeOCRRequests = 0)

----------------------------------------------------------------------------
(* What the statements about the OCR workers speak of *)

(* C20: every recognizeWeight call has a worker of its own: it is created  *)
(* by that call's createWorker step and by no other step, and no step      *)
(* touches the workers of two requests.  Once created, the worker is       *)
(* handed to terminate() exactly once, in the call's finally step, before  *)
(* the call settles, whether setParameters and recognize returned or       *)
(* threw; a settled call never leaves a created worker behind.             *)
C20_OwnWorkerTerminatedOnce ==
    /\ [](\A r \in Requests :
             /\ pc[r] \in {"pending", "createWorker"} => worker[r] = "none"
             /\ pc[r] \in {"setParameters", "recognize", "terminate"}
                   => worker[r] = "created"
             /\ pc[r] \in {"settled", "responded"} => worker[r] # "created")
    /\ [][\A r \in Requests :
             /\ worker'[r] # worker[r] =>
                   \A q \in Requests \ {r} : worker'[q] = worker[q] /\ pc'[q] = pc[q]
             /\ (worker[r] = "none" /\ worker'[r] # "none") =>
                   worker'[r] = "created" /\ pc[r] = "createWorker"
             /\ (worker[r] = "created" /\ worker'[r] # "created") =>
                   /\ worker'[r] = "terminated"
                   /\ pc[r] = "terminate" /\ pc'[r] = "settled"
             /\ worker[r] = "terminated" => worker'[r] = "terminated"
             /\ (pc[r] = "terminate" /\ pc'[r] # "terminate") =>
                   worker'[r] = "terminated" /\ outcome'[r].settled]_vars

(* two calls hold a worker each at the same time, and the worker of a      *)
(* third call, which failed, has been terminated                           *)
C20_Witness ==
    \E p, q, r \in Requests :
        /\ p # q /\ worker[p] = "created" /\ worker[q] = "created"
        /\ HasStatus(r, 500) /\ worker[r] = "terminated"

----------------------------------------------------------------------------
(* What the statements about uploads without a file speak of *)

(* in this step the handler of r runs from its start without a file *)
UploadsNoFile(r) == pc[r] = "pending" /\ pc'[r] # "pending" /\ reqFile'[r] = "missing"

(* C21: the check for a missing file comes before the admission gate: an   *)
(* upload without an image file is answered 400 and nothing else, whether  *)
(* the gate is full or not, with a body that does not depend on the        *)
(* counter, in a step that leaves the counter, the history, the workers    *)
(* and the webhooks as they were.                                          *)
C21_MissingFileBeforeGate ==
    /\ [](\A r \in Requests :
             reqFile[r] = "missing" =>
                 /\ responses[r] = <<[status |-> 400]>>
                 /\ pc[r] = "responded"
                 /\ ~InHistory(r) /\ worker[r] = "none" /\ webhooks[r] = "none")
    /\ [][\A r \in Requests :
             /\ UploadsNoFile(r) =>
                   /\ Answers(r, 400) /\ Len(responses'[r]) = 1
                   /\ UNCHANGED <<activeOCRRequests, uploadHistory, outcome, worker,
                                  webhooks, webhookPayload, receivedAt>>
             /\ Answers(r, 400) => UploadsNoFile(r)]_vars

(* with a limit of 1 the only slot is taken by an earlier upload, and a    *)
(* later upload without a file has been answered 400, one with a file 429  *)
C21_Witness ==
    /\ MAX_CONCURRENT_OCR = Num(1) /\ activeOCRRequests = 1
    /\ \E p, q, r \in Requests :
          /\ p < q /\ p < r /\ InFlight(p)
          /\ HasStatus(q, 400) /\ HasStatus(r, 429)

----------------------------------------------------------------------------
(* What the statements about the meaning of the counter speak of *)

(* r has been through the increment of the gate *)
Incremented(r) == pc[r] \notin {"pending"} /\ reqFile[r] = "file" /\ ~HasStatus(r, 429)

(* the finally block of r has run *)
Decremented(r) == Incremented(r) /\ pc[r] = "responded"

(* C22: in every reachable state the counter is the number of uploads      *)
(* that have gone through the increment of the gate and whose finally      *)
(* block has not run yet, whatever the limit; with no upload received it   *)
(* is 0.                                                                   *)
C22_CounterCountsInFlight ==
    /\ activeOCRRequests =
          Cardinality({r \in Requests : Incremented(r) /\ ~Decremented(r)})
    /\ (\A r \in Requests : pc[r] = "pending") => activeOCRRequests = 0

(* without a usable limit three uploads are counted at once; none of them  *)
(* has reached its finally block                                           *)
C22_Witness ==
    /\ MAX_CONCURRENT_OCR.nan
    /\ activeOCRRequests = 3
    /\ \E p, q \in Requests : p # q /\ pc[p] = "settled" /\ pc[q] = "recognize"

----------------------------------------------------------------------------
(* What the statements about the number of workers speak of *)

LiveWorkers == {r \in Requests : worker[r] = "created"}

(* C23: with an integer limit of at least 1 there are never more workers   *)
(* created and not yet terminated than the limit, because a worker exists  *)
(* only for a request that holds a slot: it is created after the           *)
(* increment, and terminate() has returned or thrown before the finally    *)
(* block of the handler runs.                                              *)
C23_WorkersWithinLimit ==
    /\ \A r \in LiveWorkers : Incremented(r) /\ ~Decremented(r) /\ ~OcrSettled(r)
    /\ Cardinality(LiveWorkers) <= activeOCRRequests
    /\ (~MAX_CONCURRENT_OCR.nan /\ MAX_CONCURRENT_OCR.n >= 1) =>
           Cardinality(LiveWorkers) <= MAX_CONCURRENT_OCR.n

(* with a limit of 2 two workers are alive after the worker of an earlier  *)
(* upload has been terminated                                              *)
C23_Witness ==
    /\ MAX_CONCURRENT_OCR = Num(2)
    /\ Cardinality(LiveWorkers) = 2
    /\ \E r \in Requests : worker[r] = "terminated" /\ pc[r] = "responded"

----------------------------------------------------------------------------
(* What the statements about the configured limit speak of *)

(* C24: for every value of the environment variable (unset, empty, 0,      *)
(* negative, not a number) the gate enforces a bound that does not grow    *)
(* with the number of uploads: the uploads admitted at the same time are   *)
(* never all of the NumReqs uploads offered, and never more than 2 when    *)
(* the variable is unset or empty.                                         *)
C24_FiniteBoundForEveryValue ==
    /\ InFlightCount < NumReqs
    /\ (~envMaxConcurrent.set \/ envMaxConcurrent.value = <<>>) => InFlightCount <= 2

----------------------------------------------------------------------------
(* What the statements about extracting twice speak of *)

(* C25: the value the extractor returns is a fixed point of the            *)
(* extractor: handed back to it, it comes out unchanged and with the same  *)
(* confidence.                                                             *)
C25_OutputIsFixedPoint ==
    extractedAgain # NoResult =>
        /\ extractedAgain.value = extracted.value
        /\ extractedAgain.confidence = extracted.confidence

(* a decimal written with a comma among other text came out with a dot,    *)
(* and came out the same from the second pass                              *)
C25_Witness ==
    /\ extractedAgain # NoResult /\ extractedAgain.confidence = 95
    /\ \E i \in 1..Len(text) : text[i] = ","
    /\ \E i \in 1..Len(extracted.value) : extracted.value[i] = "."
    /\ Len(text) > Len(extracted.value)

----------------------------------------------------------------------------
(* What the statements about the order of the history speak of *)

(* C26 as stated: the history is ordered by receive time: receivedAt never *)
(* increases from one index to the next, so that index 0 holds the         *)
(* successful upload received last.                                        *)
C26_OrderedByReceiveTime ==
    \A i, j \in 1..Len(uploadHistory) :
        i < j => uploadHistory[i].receivedAt >= uploadHistory[j].receivedAt

(* C26: the history is ordered by completion: a step that answers an       *)
(* upload 200 puts it at index 0 and moves every other record one index    *)
(* down; and receivedAt increases from one index to a later one only       *)
(* where the upload at the earlier index reached the handler before the    *)
(* other and finished after it.                                            *)
C26_OrderedByCompletion ==
    /\ [](\A i, j \in 1..Len(uploadHistory) :
             (i < j /\ uploadHistory[i].receivedAt < uploadHistory[j].receivedAt)
                 => uploadHistory[i].filename < uploadHistory[j].filename)
    /\ [][\A r \in Requests :
             Answers(r, 200) =>
                 /\ uploadHistory'[1].filename = r
                 /\ uploadHistory'[1].receivedAt = receivedAt[r]
                 /\ \A i \in 1..Len(uploadHistory) :
                       i + 1 <= Len(uploadHistory') =>
                           uploadHistory'[i + 1] = uploadHistory[i]]_vars

(* two uploads overlapped: the one received first finished last and is at  *)
(* index 0, above an upload with a later receivedAt                        *)
C26_Witness ==
    /\ Len(uploadHistory) >= 2
    /\ uploadHistory[1].receivedAt < uploadHistory[2].receivedAt
    /\ uploadHistory[1].filename < uploadHistory[2].filename

----------------------------------------------------------------------------
(* What the statements about the responses speak of *)

(* in this step the handler of r starts / resumes after recognizeWeight *)
Arrives(r) == pc[r] = "pending" /\ pc'[r] # "pending"
Resumes(r) == pc[r] = "settled" /\ pc'[r] # "settled"

(* no request has more than one response, and a request whose handler has *)
(* run to its end has one                                                  *)
OneResponse ==
    \A r \in Requests :
        /\ Len(responses[r]) <= 1
        /\ pc[r] = "responded" <=> Len(responses[r]) = 1

(* C27 as stated: at most one response per upload, exactly one once the    *)
(* handler is through; 400 iff no file was provided, 429 iff the gate was  *)
(* full, 200 iff recognition succeeded, 500 iff recognition failed.        *)
C27_StatusIffCondition ==
    /\ []OneResponse
    /\ [][\A r \in Requests :
             /\ Answers(r, 400) <=> (Arrives(r) /\ reqFile'[r] = "missing")
             /\ Answers(r, 429) <=>
                   (Arrives(r) /\ GateFull(activeOCRRequests, MAX_CONCURRENT_OCR))
             /\ Answers(r, 200) <=> (Resumes(r) /\ outcome[r].ok)
             /\ Answers(r, 500) <=> (Resumes(r) /\ ~outcome[r].ok)]_vars

(* C27: at most one response per upload, exactly one once the handler is   *)
(* through; 400 iff no file was provided, 429 iff a file was provided and  *)
(* the gate was full, 200 iff the upload was admitted and recognition      *)
(* succeeded, 500 iff it was admitted and recognition failed.              *)
C27_StatusByFirstCondition ==
    /\ []OneResponse
    /\ [][\A r \in Requests :
             /\ Answers(r, 400) <=> (Arrives(r) /\ reqFile'[r] = "missing")
             /\ Answers(r, 429) <=>
                   (/\ Arrives(r) /\ reqFile'[r] = "file"
                    /\ GateFull(activeOCRRequests, MAX_CONCURRENT_OCR))
             /\ Answers(r, 200) <=> (Resumes(r) /\ outcome[r].ok)
             /\ Answers(r, 500) <=> (Resumes(r) /\ ~outcome[r].ok)
             /\ Resumes(r) => reqFile[r] = "file" /\ outcome[r].settled]_vars

(* with a limit of 1 every upload has its one response: one was rejected   *)
(* while another, later answered 200, held the slot, and one failed        *)
C27_Witness ==
    /\ MAX_CONCURRENT_OCR = Num(1)
    /\ \A r \in Requests : pc[r] = "responded" /\ Len(responses[r]) = 1
    /\ \E p, q, r \in Requests :
          HasStatus(p, 200) /\ HasStatus(q, 429) /\ HasStatus(r, 500)

====
